---- MODULE Spec2Model ----
(***************************************************************************)
(* A model of the two download programs of hplt-project/ia-download:       *)
(*   cc-download.py  resumable transfer (download_warc) and its main loop  *)
(*   ia-download.py  full-body transfer (worker_download_file,             *)
(*                   download_file) and its main loop with the counter of  *)
(*                   consecutive errors                                     *)
(* Spec     follows one task through a transfer step by step, with the     *)
(*          file system, the buffered file object, the server's answers    *)
(*          and process kills and restarts.                                 *)
(* SpecFair is Spec with a worker that, unless killed, takes its next step. *)
(* SpecMain follows the result loop of the main programs over many tasks.  *)
(* SpecList follows the files generator of ia-download.py and the retry     *)
(*          loop of ia_get_files.                                           *)
(* SpecPool follows the main programs together with their workers           *)
(*          (multiprocessing.Pool, FakePool) over a few tasks.              *)
(* SpecRace follows two workers that run at the same time and the paths     *)
(*          they write, rename and delete.                                  *)
(***************************************************************************)
EXTENDS Integers, Sequences, FiniteSets, TLC

VARIABLES
    prog,               \* "cc" (cc-download.py) or "ia" (ia-download.py)
    srvmode,            \* "any", "trunc": the server cuts every body short,
                        \* or "good": the server answers as HTTP asks it to
    check_md5,          \* ia: args.check_md5
    dest,               \* the file at the destination path
    temp,               \* the temp files, by temp name
    pid,                \* os.getpid() of the running process
    pc,                 \* the worker's position
    wbuf,               \* bytes written to the file object, not yet on disk
    pos,                \* cc: ftemp.tell()
    digest,             \* the running md5
    attempt,            \* cc: attempt
    size,               \* cc: size (None is -1); ia: size
    body,               \* the rest of the response body in flight
    result,             \* what the worker returned
    nreq,               \* requests issued by this invocation
    reqOff,             \* offset of the last Range request (-1: none yet)
    runs,               \* invocations started so far
    dest0,              \* dest when this invocation started
    temp0,              \* temp when this invocation started
    renamed,            \* some invocation has renamed a temp file to dest
    mainpc,             \* the main program's position
    consecutive_errors, \* ia: consecutive_errors
    total_errors,       \* ia: total_errors
    last,               \* kind of the result taken last
    nfailed,            \* number of Failed results produced so far
    exitcode,           \* the process exit status (-1: still running)
    identifiers,        \* ia: the identifiers whose files are still to be listed
    cacheOn,            \* ia: args.cache is given
    cache,              \* ia: the keys stored in the cache
    lpc,                \* ia: the position of the files generator
    retry,              \* ia_get_files: retry
    ntry,               \* ia_get_files: get_files calls made by this call
    slept,              \* ia_get_files: the sleeps of this call, in seconds
    lerr,               \* ia_get_files: what the last get_files call raised
    jobs,               \* args.jobs
    ntasks,             \* tasks of the run
    todo,               \* tasks not yet handed to a worker
    busy,               \* by worker: what its task meets, <<>> when it has none
    outq,               \* results not yet taken by the main program
    taken,              \* results taken by the main program
    rows,               \* rows written to the output
    skipped,            \* results taken for which no row is written
    killed,             \* workers terminated in the middle of a task
    rtask,              \* by worker: the task it runs at the same time as the other
    rpc,                \* by worker: its position in that task
    rfs,                \* the paths that exist
    touched             \* by path: the workers that wrote, renamed or deleted it

fvars == <<srvmode, check_md5, dest, temp, pid, pc, wbuf, pos, digest, attempt,
           size, body, result, nreq, reqOff, runs, dest0, temp0, renamed>>
mvars == <<mainpc, consecutive_errors, total_errors, last, nfailed, exitcode>>
lvars == <<identifiers, cacheOn, cache, lpc, retry, ntry, slept, lerr>>
pvars == <<jobs, ntasks, todo, busy, outq, taken, rows, skipped, killed>>
rvars == <<rtask, rpc, rfs, touched>>
xvars == <<lvars, pvars, rvars>>
vars == <<prog, fvars, mvars, xvars>>

(***************************************************************************)
(* Bounds of the model.                                                    *)
(***************************************************************************)
\* length of the remote resource, in bytes
ResourceLen == 3
\* bytes one read of the response returns at most (BUFSIZE, chunk_size, scaled)
ChunkMax == 2
\* capacity of the file object's write buffer (io.DEFAULT_BUFFER_SIZE, scaled)
BufCap == 1
\* invocations of the program on the same task (the first and the restarts)
MaxRuns == 2
\* identifiers on the command line of ia-download.py
MaxItems == 2
\* tasks that a run with workers still has to hand out
NumTasks == 3
\* times in a row that the server fails one GET, at most
MaxDrops == 4
\* Failed results one run of a main program sees at most
MaxFailed == 102

(***************************************************************************)
(* Program constants.                                                      *)
(***************************************************************************)
MAX_ATTEMPTS == 10
\* ia-download.py 132: range(1, 6) ends with 5
LastRetry == 5
Threshold == 100
\* ia-download.py 99: session.mount_http_adapter(max_retries=2)
SetupRetries == 2

None == -1

(***************************************************************************)
(* Files, the resource and md5.                                            *)
(***************************************************************************)
NoFile == [exists |-> FALSE, data |-> <<>>]
File(bytes) == [exists |-> TRUE, data |-> bytes]

Resource == [i \in 1..ResourceLen |-> i]
Total == Len(Resource)
\* a body of the right length and the wrong content
Corrupt == [i \in 1..ResourceLen |-> 0]
\* what a server appends when it sends more than it advertised
Excess == <<9>>

Min(a, b) == IF a < b THEN a ELSE b

Md5Init == 7

RECURSIVE Md5Update(_, _)
Md5Update(h, chunk) ==
    IF chunk = <<>> THEN h
    ELSE Md5Update((h * 31 + Head(chunk) + 1) % 9973, Tail(chunk))

Chunk(bytes) == SubSeq(bytes, 1, Min(ChunkMax, Len(bytes)))
Rest(bytes) == SubSeq(bytes, Min(ChunkMax, Len(bytes)) + 1, Len(bytes))

\* cc-download.py 78-84: seek(0), then read to the end chunk by chunk
RECURSIVE ReadToEnd(_, _, _)
ReadToEnd(bytes, h, p) ==
    IF Chunk(bytes) = <<>> THEN [digest |-> h, pos |-> p]
    ELSE ReadToEnd(Rest(bytes), Md5Update(h, Chunk(bytes)), p + Len(Chunk(bytes)))

ReadToEndNoDigest(bytes) == [digest |-> Md5Init, pos |-> Len(bytes)]
ReadToEndNoRead(bytes) == [digest |-> Md5Init, pos |-> 0]
SeedFromTemp(bytes) == ReadToEnd(bytes, Md5Init, 0)

\* ia-download.py 85-93
compute_md5(f) == ReadToEnd(f.data, Md5Init, 0).digest

(***************************************************************************)
(* The buffered file object: write() and close().                          *)
(***************************************************************************)
Write(disk, buf, chunk) ==
    IF Len(chunk) <= BufCap - Len(buf) THEN [disk |-> disk, buf |-> buf \o chunk]
    ELSE IF Len(chunk) > BufCap THEN [disk |-> disk \o buf \o chunk, buf |-> <<>>]
    ELSE [disk |-> disk \o buf, buf |-> chunk]

Flush(f, buf) == [f EXCEPT !.data = @ \o buf]

(***************************************************************************)
(* The server of the resumable mode: what a Range request from offset o    *)
(* can be answered with.                                                   *)
(***************************************************************************)
\* Content-Range: bytes a-b/*  (the total is not given)
Star == -2

ErrorResponse == [status |-> "error", cr |-> None, cl |-> None, body |-> <<>>]

\* the bytes from offset o on, cut after n of them
Part(o, n) == SubSeq(Resource, o + 1, o + n)

\* an offset at or beyond the end of the resource cannot be satisfied (416)
RangeResponses(o) ==
    IF o >= Total
    THEN {ErrorResponse}
    ELSE IF srvmode = "good"
    THEN {[status |-> "ok", cr |-> Total, cl |-> Total - o, body |-> Part(o, Total - o)]}
    ELSE IF srvmode = "trunc"
    THEN {[status |-> "ok", cr |-> Total, cl |-> Total - o, body |-> Part(o, n)] :
             n \in 0..(Total - o - 1)}
    ELSE {ErrorResponse}
         \cup {[status |-> "ok", cr |-> None, cl |-> None, body |-> <<>>]}
         \cup {[status |-> "ok", cr |-> Total, cl |-> Total - o, body |-> Part(o, n)] :
                  n \in 0..(Total - o)}
         \cup {[status |-> "ok", cr |-> Total, cl |-> Total - o,
                body |-> Part(o, Total - o) \o Excess]}
         \cup {[status |-> "ok", cr |-> Star, cl |-> Total - o, body |-> Part(o, n)] :
                  n \in 0..(Total - o)}

\* cc-download.py 52-62; None stands for the ValueError
get_content_length(response) ==
    IF response.cr # None /\ response.cr # Star THEN response.cr
    ELSE IF response.cl # None THEN response.cl
    ELSE None

(***************************************************************************)
(* Results.                                                                *)
(***************************************************************************)
NoResult == [kind |-> "none", size |-> None, md5 |-> None, error |-> ""]
AlreadyPresent == [kind |-> "AlreadyPresent", size |-> None, md5 |-> None, error |-> ""]
Completed(n, h) == [kind |-> "Completed", size |-> n, md5 |-> h, error |-> ""]
Failed(n, e) == [kind |-> "Failed", size |-> n, md5 |-> None, error |-> e]

TempNames == 0..MaxRuns
\* cc: '.' + file_name; ia: '.' + file_name + '~' + pid
temp_name == IF prog = "cc" THEN 0 ELSE pid

Running == pc \notin {"done", "dead", "raised"}

ListIdle ==
    /\ identifiers = <<>> /\ cacheOn = FALSE /\ cache = {} /\ lpc = "idle"
    /\ retry = 0 /\ ntry = 0 /\ slept = <<>> /\ lerr = ""

PoolIdle ==
    /\ jobs = 1 /\ ntasks = 0 /\ todo = 0 /\ busy = [w \in 1..jobs |-> <<>>]
    /\ outq = <<>> /\ taken = 0 /\ rows = 0 /\ skipped = 0 /\ killed = 0

RaceIdle == rtask = <<>> /\ rpc = <<>> /\ rfs = {} /\ touched = {}

XIdle == ListIdle /\ PoolIdle /\ RaceIdle

MainIdle ==
    /\ mainpc = "idle" /\ consecutive_errors = 0 /\ total_errors = 0
    /\ last = "none" /\ nfailed = 0 /\ exitcode = None

(***************************************************************************)
(* Init: a task whose destination and temp file are absent or left by an   *)
(* earlier session.                                                        *)
(***************************************************************************)
Init ==
    /\ prog \in {"cc", "ia"}
    /\ srvmode \in (IF prog = "cc" THEN {"any", "trunc", "good"} ELSE {"any"})
    /\ check_md5 \in (IF prog = "ia" THEN BOOLEAN ELSE {FALSE})
    /\ dest \in (IF prog = "ia" THEN {NoFile, File(Resource), File(Corrupt)}
                                ELSE {NoFile, File(Resource)})
    /\ temp = [n \in TempNames |-> NoFile]
    /\ pid = 1
    /\ pc = "start"
    /\ wbuf = <<>> /\ pos = 0 /\ digest = Md5Init /\ attempt = 0 /\ size = None
    /\ body = <<>> /\ result = NoResult /\ nreq = 0 /\ reqOff = None
    /\ runs = 1
    /\ dest0 = dest /\ temp0 = temp
    /\ renamed = FALSE
    /\ MainIdle
    /\ XIdle

(***************************************************************************)
(* cc-download.py: download_warc.                                          *)
(***************************************************************************)
\* a variant in which the exception ends the attempt, not the task
WarcFailRetries(e) ==
    /\ temp' = [temp EXCEPT ![temp_name] = Flush(@, wbuf)]
    /\ wbuf' = <<>>
    /\ body' = <<>>
    /\ result' = result
    /\ pc' = "loop"

\* 127-132: the exception leaves the with block (the file object is closed,
\* its buffer flushed) and becomes a DownloadError
WarcFail(e) ==
    /\ temp' = [temp EXCEPT ![temp_name] = Flush(@, wbuf)]
    /\ wbuf' = <<>>
    /\ body' = <<>>
    /\ result' = Failed(size', e)
    /\ pc' = "done"

\* 71-72
WarcExistsOpensFirst ==
    /\ temp' = [temp EXCEPT ![temp_name] = File(@.data)]
    /\ result' = AlreadyPresent
    /\ pc' = "done"
WarcExists ==
    /\ result' = AlreadyPresent
    /\ pc' = "done"
    /\ UNCHANGED temp

\* 66-72
WarcStart ==
    /\ prog = "cc" /\ pc = "start"
    /\ IF dest.exists
       THEN WarcExists
       ELSE /\ pc' = "open"
            /\ UNCHANGED <<temp, result>>
    /\ UNCHANGED <<xvars, prog, srvmode, check_md5, dest, pid, wbuf, pos, digest, attempt,
                   size, body, nreq, reqOff, runs, dest0, temp0, renamed, mvars>>

\* 76-87: open(temp_name, 'a+b') creates the file when absent
WarcOpen ==
    /\ prog = "cc" /\ pc = "open"
    /\ temp' = [temp EXCEPT ![temp_name] = File(@.data)]
    /\ digest' = SeedFromTemp(temp[temp_name].data).digest
    /\ pos' = SeedFromTemp(temp[temp_name].data).pos
    /\ attempt' = 0
    /\ pc' = "loop"
    /\ UNCHANGED <<xvars, prog, srvmode, check_md5, dest, pid, wbuf, size, body, result,
                   nreq, reqOff, runs, dest0, temp0, renamed, mvars>>

\* 76: open() raises (no permission, no space for a new file)
WarcOpenError ==
    /\ prog = "cc" /\ pc = "open"
    /\ size' = size
    /\ result' = Failed(size, "open")
    /\ pc' = "done"
    /\ UNCHANGED <<xvars, prog, srvmode, check_md5, dest, temp, pid, wbuf, pos, digest,
                   attempt, body, nreq, reqOff, runs, dest0, temp0, renamed, mvars>>

\* 88
MoreAttemptsOffByOne(a) == a <= MAX_ATTEMPTS
MoreAttempts(a) == a < MAX_ATTEMPTS

\* 88-97: one more attempt: the Range request and the response headers
WarcRequest ==
    /\ prog = "cc" /\ pc = "loop"
    /\ MoreAttempts(attempt)
    /\ attempt' = attempt + 1
    /\ nreq' = nreq + 1
    /\ reqOff' = pos
    /\ \E response \in RangeResponses(pos) :
          IF response.status = "error"
          THEN /\ size' = size
               /\ WarcFail("urlopen")
          ELSE IF get_content_length(response) = None
          THEN /\ size' = size
               /\ WarcFail("No content size")
          ELSE /\ size' = get_content_length(response)
               /\ body' = response.body
               /\ pc' = "recv"
               /\ UNCHANGED <<temp, wbuf, result>>
    /\ UNCHANGED <<xvars, prog, srvmode, check_md5, dest, pid, pos, digest, runs, dest0,
                   temp0, renamed, mvars>>

\* 88, 126: the attempts are used up
WarcExhausted ==
    /\ prog = "cc" /\ pc = "loop"
    /\ ~MoreAttempts(attempt)
    /\ size' = size
    /\ WarcFail("Downloaded not enough")
    /\ UNCHANGED <<xvars, prog, srvmode, check_md5, dest, pid, pos, digest, attempt, nreq,
                   reqOff, runs, dest0, temp0, renamed, mvars>>

\* 101-106: one chunk of the body goes to the temp file and the digest
WarcRecvChunk ==
    /\ prog = "cc" /\ pc = "recv"
    /\ Chunk(body) # <<>>
    /\ temp' = [temp EXCEPT ![temp_name] =
                   File(Write(@.data, wbuf, Chunk(body)).disk)]
    /\ wbuf' = Write(temp[temp_name].data, wbuf, Chunk(body)).buf
    /\ digest' = Md5Update(digest, Chunk(body))
    /\ pos' = pos + Len(Chunk(body))
    /\ body' = Rest(body)
    /\ UNCHANGED <<xvars, prog, srvmode, check_md5, dest, pid, pc, attempt, size, result,
                   nreq, reqOff, runs, dest0, temp0, renamed, mvars>>

\* 102: the read raises (the connection breaks in the middle of the body)
WarcRecvError ==
    /\ prog = "cc" /\ pc = "recv" /\ srvmode = "any"
    /\ size' = size
    /\ WarcFail("read")
    /\ UNCHANGED <<xvars, prog, srvmode, check_md5, dest, pid, pos, digest, attempt, nreq,
                   reqOff, runs, dest0, temp0, renamed, mvars>>

\* a variant that also goes on after an overrun
WarcTooLittleOrTooMuch(p, n) == p # n
\* 109-110
WarcTooLittle(p, n) == p < n

\* 103-117: the body has ended; what was promised is compared with ftemp.tell()
WarcRecvEnd ==
    /\ prog = "cc" /\ pc = "recv"
    /\ Chunk(body) = <<>>
    /\ size' = size
    /\ IF WarcTooLittle(pos, size)
       THEN /\ pc' = "loop"
            /\ UNCHANGED <<dest, temp, wbuf, body, result, renamed>>
       ELSE IF pos > size
       THEN /\ WarcFail("Downloaded too much")
            /\ UNCHANGED <<dest, renamed>>
       ELSE \* os.rename(temp_name, file_name), the file object still open
            /\ dest' = temp[temp_name]
            /\ temp' = [temp EXCEPT ![temp_name] = NoFile]
            /\ renamed' = TRUE
            /\ pc' = "renamed"
            /\ UNCHANGED <<wbuf, body, result>>
    /\ UNCHANGED <<xvars, prog, srvmode, check_md5, pid, pos, digest, attempt, nreq, reqOff,
                   runs, dest0, temp0, mvars>>

\* 118-122: return FileDownloaded; leaving the with block closes the file
\* object, whose buffer goes to the file that now has the destination name
WarcReturn ==
    /\ prog = "cc" /\ pc = "renamed"
    /\ dest' = Flush(dest, wbuf)
    /\ wbuf' = <<>>
    /\ result' = Completed(size, digest)
    /\ pc' = "done"
    /\ UNCHANGED <<xvars, prog, srvmode, check_md5, temp, pid, pos, digest, attempt, size,
                   body, nreq, reqOff, runs, dest0, temp0, renamed, mvars>>

\* 118-132: the flush at close raises (the disk is full): the buffered bytes
\* are lost and the exception becomes a DownloadError
WarcCloseError ==
    /\ prog = "cc" /\ pc = "renamed"
    /\ wbuf # <<>>
    /\ wbuf' = <<>>
    /\ result' = Failed(size, "close")
    /\ pc' = "done"
    /\ UNCHANGED <<xvars, prog, srvmode, check_md5, dest, temp, pid, pos, digest, attempt,
                   size, body, nreq, reqOff, runs, dest0, temp0, renamed, mvars>>

(***************************************************************************)
(* ia-download.py: worker_download_file and download_file.                 *)
(***************************************************************************)
\* file.md5, the checksum the listing gives for the resource
expected_md5 == compute_md5(File(Resource))

\* what the GET can end in: "raise" stands for an exception of os.makedirs or
\* session.get, "not ok" for a response whose ok is false; a body is a part of
\* the resource from its start, or has the wrong content
FileResponses ==
    {[status |-> "raise", body |-> <<>>], [status |-> "not ok", body |-> <<>>]}
    \cup {[status |-> "ok", body |-> Part(0, n)] : n \in 0..Total}
    \cup {[status |-> "ok", body |-> Corrupt]}

\* a variant that keeps the file whatever its md5
PreflightKeepsFile(f) == f
\* 110-114: with --check-md5, an existing file of the wrong md5 is deleted
Preflight(f) ==
    IF check_md5 /\ f.exists /\ compute_md5(f) # expected_md5 THEN NoFile ELSE f

\* 104-123, as far as the call of download_file
FileStart ==
    /\ prog = "ia" /\ pc = "start"
    /\ dest' = Preflight(dest)
    /\ IF ~dest'.exists
       THEN /\ pc' = "get"
            /\ UNCHANGED result
       ELSE /\ result' = AlreadyPresent
            /\ pc' = "done"
    /\ UNCHANGED <<xvars, prog, srvmode, check_md5, temp, pid, wbuf, pos, digest, attempt,
                   size, body, nreq, reqOff, runs, dest0, temp0, renamed, mvars>>

\* 110-114: compute_md5 or os.unlink raises (the file cannot be read or
\* deleted); nothing in the worker catches it
FilePreflightError ==
    /\ prog = "ia" /\ pc = "start"
    /\ check_md5 /\ dest.exists
    /\ pc' = "raised"
    /\ UNCHANGED <<xvars, prog, srvmode, check_md5, dest, temp, pid, wbuf, pos, digest,
                   attempt, size, body, result, nreq, reqOff, runs, dest0, temp0,
                   renamed, mvars>>

\* 76-80 and 120-121: the finally block deletes the temp file, the worker
\* turns the exception into its return value
FileFailKeepsTemp(e) ==
    /\ wbuf' = <<>>
    /\ body' = <<>>
    /\ result' = Failed(None, e)
    /\ pc' = "done"
    /\ temp' = [temp EXCEPT ![temp_name] = Flush(@, wbuf)]
FileFail(e) ==
    /\ wbuf' = <<>>
    /\ body' = <<>>
    /\ result' = Failed(None, e)
    /\ pc' = "done"
    /\ temp' = [temp EXCEPT ![temp_name] = NoFile]

\* 50-65: the GET, the check of response.ok, open(temp_path, 'wb')
FileGet ==
    /\ prog = "ia" /\ pc = "get"
    /\ nreq' = nreq + 1
    /\ \E response \in FileResponses :
          IF response.status = "raise"
          THEN /\ result' = Failed(None, "get")
               /\ pc' = "done"
               /\ UNCHANGED <<temp, wbuf, body, digest, size>>
          ELSE IF response.status = "not ok"
          THEN /\ result' = Failed(None, "reason")
               /\ pc' = "done"
               /\ UNCHANGED <<temp, wbuf, body, digest, size>>
          ELSE /\ temp' = [temp EXCEPT ![temp_name] = File(<<>>)]
               /\ wbuf' = <<>>
               /\ digest' = Md5Init
               /\ size' = 0
               /\ body' = response.body
               /\ pc' = "recv"
               /\ UNCHANGED result
    /\ UNCHANGED <<xvars, prog, srvmode, check_md5, dest, pid, pos, attempt, reqOff, runs,
                   dest0, temp0, renamed, mvars>>

\* 66-68
FileRecvChunk ==
    /\ prog = "ia" /\ pc = "recv"
    /\ Chunk(body) # <<>>
    /\ temp' = [temp EXCEPT ![temp_name] =
                   File(Write(@.data, wbuf, Chunk(body)).disk)]
    /\ wbuf' = Write(temp[temp_name].data, wbuf, Chunk(body)).buf
    /\ size' = size + Len(Chunk(body))
    /\ digest' = Md5Update(digest, Chunk(body))
    /\ body' = Rest(body)
    /\ UNCHANGED <<xvars, prog, srvmode, check_md5, dest, pid, pc, pos, attempt, result,
                   nreq, reqOff, runs, dest0, temp0, renamed, mvars>>

\* 66-67: iter_content or write raises
FileRecvError ==
    /\ prog = "ia" /\ pc = "recv"
    /\ FileFail("stream")
    /\ UNCHANGED <<xvars, prog, srvmode, check_md5, dest, pid, pos, digest, attempt, size,
                   nreq, reqOff, runs, dest0, temp0, renamed, mvars>>

\* 70
Md5Mismatch(h) == h # expected_md5

\* 65-82: the body has ended: the file is closed, the md5 compared and the
\* temp file renamed
FileRecvEnd ==
    /\ prog = "ia" /\ pc = "recv"
    /\ Chunk(body) = <<>>
    /\ IF Md5Mismatch(digest)
       THEN /\ FileFail("md5 mismatch")
            /\ UNCHANGED <<dest, renamed>>
       ELSE /\ dest' = Flush(temp[temp_name], wbuf)
            /\ temp' = [temp EXCEPT ![temp_name] = NoFile]
            /\ renamed' = TRUE
            /\ wbuf' = <<>>
            /\ result' = Completed(size, digest)
            /\ pc' = "done"
            /\ UNCHANGED body
    /\ UNCHANGED <<xvars, prog, srvmode, check_md5, pid, pos, digest, attempt, size, nreq,
                   reqOff, runs, dest0, temp0, mvars>>

(***************************************************************************)
(* The process is killed at any step; the program is started again on the  *)
(* same task.                                                              *)
(***************************************************************************)
Kill ==
    /\ Running
    /\ pc' = "dead"
    /\ wbuf' = <<>>
    /\ body' = <<>>
    /\ UNCHANGED <<xvars, prog, srvmode, check_md5, dest, temp, pid, pos, digest, attempt,
                   size, result, nreq, reqOff, runs, dest0, temp0, renamed, mvars>>

\* the server at the time of the next invocation: one that answered in any
\* way may by then answer as HTTP asks it to
ServerNow == IF prog = "cc" /\ srvmode = "any" THEN {"any", "good"} ELSE {srvmode}

Restart ==
    /\ ~Running
    /\ runs < MaxRuns
    /\ runs' = runs + 1
    /\ pid' = pid + 1
    /\ pc' = "start"
    /\ wbuf' = <<>> /\ pos' = 0 /\ digest' = Md5Init /\ attempt' = 0 /\ size' = None
    /\ body' = <<>> /\ result' = NoResult /\ nreq' = 0 /\ reqOff' = None
    /\ dest0' = dest /\ temp0' = temp
    /\ srvmode' \in ServerNow
    /\ UNCHANGED <<xvars, prog, check_md5, dest, temp, renamed, mvars>>

Next ==
    \/ WarcStart \/ WarcOpen \/ WarcOpenError \/ WarcRequest \/ WarcExhausted
    \/ WarcRecvChunk \/ WarcRecvError \/ WarcRecvEnd \/ WarcReturn \/ WarcCloseError
    \/ FileStart \/ FilePreflightError \/ FileGet \/ FileRecvChunk \/ FileRecvError
    \/ FileRecvEnd
    \/ Kill \/ Restart

Spec == Init /\ [][Next]_vars

\* a process that is not killed takes its next step
WorkerStep ==
    \/ WarcStart \/ WarcOpen \/ WarcRequest \/ WarcExhausted \/ WarcRecvChunk
    \/ WarcRecvEnd \/ WarcReturn
    \/ FileStart \/ FileGet \/ FileRecvChunk \/ FileRecvEnd

SpecFair == Spec /\ WF_vars(WorkerStep)

(***************************************************************************)
(* The main programs: the loop over pool.imap_unordered.  A worker's       *)
(* outcome is computed from what the task meets: whether the destination   *)
(* exists, whether its md5 is the expected one, whether it can be read and *)
(* deleted, and whether the transfer succeeds.                             *)
(***************************************************************************)
Envs == [exists : BOOLEAN, md5ok : BOOLEAN, ioerror : BOOLEAN, transfer : {"ok", "fail"}]

\* cc-download.py 65-132
download_warc(env) ==
    IF env.exists THEN "AlreadyPresent"
    ELSE IF env.transfer = "ok" THEN "Completed"
    ELSE "Failed"

\* ia-download.py 102-123; "raise": an exception leaves the worker
worker_download_file(env) ==
    IF check_md5 /\ env.exists /\ env.ioerror THEN "raise"
    ELSE IF env.exists /\ ~(check_md5 /\ ~env.md5ok) THEN "AlreadyPresent"
    ELSE IF env.transfer = "ok" THEN "Completed"
    ELSE "Failed"

Worker(env) == IF prog = "cc" THEN download_warc(env) ELSE worker_download_file(env)

MInit ==
    /\ prog \in {"cc", "ia"}
    /\ srvmode = "any"
    /\ check_md5 \in (IF prog = "ia" THEN BOOLEAN ELSE {FALSE})
    /\ dest = NoFile
    /\ temp = [n \in TempNames |-> NoFile]
    /\ pid = 1
    /\ pc = "idle"
    /\ wbuf = <<>> /\ pos = 0 /\ digest = Md5Init /\ attempt = 0 /\ size = None
    /\ body = <<>> /\ result = NoResult /\ nreq = 0 /\ reqOff = None
    /\ runs = 1
    /\ dest0 = dest /\ temp0 = temp
    /\ renamed = FALSE
    /\ mainpc = "loop" /\ consecutive_errors = 0 /\ total_errors = 0
    /\ last = "none" /\ nfailed = 0 /\ exitcode = None
    /\ XIdle

\* the next result of imap_unordered is of the given kind
Takes(kind) ==
    /\ mainpc = "loop"
    /\ kind \in {Worker(env) : env \in Envs}
    /\ last' = kind

\* ia-download.py 195-196
IaTakeNone ==
    /\ prog = "ia"
    /\ Takes("AlreadyPresent")
    /\ UNCHANGED <<xvars, prog, fvars, mainpc, consecutive_errors, total_errors, nfailed,
                   exitcode>>

\* 208
AfterDownload(c) == 0

\* 197-208
IaTakeDownload ==
    /\ prog = "ia"
    /\ Takes("Completed")
    /\ consecutive_errors' = AfterDownload(consecutive_errors)
    /\ mainpc' = "check"
    /\ UNCHANGED <<xvars, prog, fvars, total_errors, nfailed, exitcode>>

\* 216
AfterErrorKeeps(c) == c
AfterError(c) == c + 1

\* 209-217
IaTakeError ==
    /\ prog = "ia"
    /\ Takes("Failed")
    /\ nfailed < MaxFailed
    /\ consecutive_errors' = AfterError(consecutive_errors)
    /\ total_errors' = total_errors + 1
    /\ nfailed' = nfailed + 1
    /\ mainpc' = "check"
    /\ UNCHANGED <<xvars, prog, fvars, exitcode>>

\* 194: the worker's exception is raised again by imap_unordered in the main
\* program, which ends with a traceback
IaWorkerRaises ==
    /\ prog = "ia"
    /\ Takes("raise")
    /\ mainpc' = "crashed"
    /\ exitcode' = 1
    /\ UNCHANGED <<xvars, prog, fvars, consecutive_errors, total_errors, nfailed>>

\* 219
TrippedAtThreshold(c) == c >= Threshold
Tripped(c) == c > Threshold

\* 219-220
IaCheck ==
    /\ prog = "ia" /\ mainpc = "check"
    /\ IF Tripped(consecutive_errors)
       THEN mainpc' = "aborted" /\ exitcode' = 1
       ELSE mainpc' = "loop" /\ UNCHANGED exitcode
    /\ UNCHANGED <<xvars, prog, fvars, consecutive_errors, total_errors, last, nfailed>>

\* 222
ExitStatus(n) == IF n > 0 THEN 1 ELSE 0

\* 194, 222: the task source is exhausted
IaExit ==
    /\ prog = "ia" /\ mainpc = "loop"
    /\ exitcode' = ExitStatus(total_errors)
    /\ mainpc' = "exited"
    /\ UNCHANGED <<xvars, prog, fvars, consecutive_errors, total_errors, last, nfailed>>

\* cc-download.py 144-154 and the FileExists result, for which no row is written
CcTakeExists ==
    /\ prog = "cc"
    /\ Takes("AlreadyPresent")
    /\ UNCHANGED <<xvars, prog, fvars, mainpc, consecutive_errors, total_errors, nfailed,
                   exitcode>>

CcTakeDownloaded ==
    /\ prog = "cc"
    /\ Takes("Completed")
    /\ UNCHANGED <<xvars, prog, fvars, mainpc, consecutive_errors, total_errors, nfailed,
                   exitcode>>

\* 155-161
CcTakeError ==
    /\ prog = "cc"
    /\ Takes("Failed")
    /\ nfailed < MaxFailed
    /\ nfailed' = nfailed + 1
    /\ UNCHANGED <<xvars, prog, fvars, mainpc, consecutive_errors, total_errors, exitcode>>

\* 144, 161: the loop ends and so does the program
CcExit ==
    /\ prog = "cc" /\ mainpc = "loop"
    /\ exitcode' = 0
    /\ mainpc' = "exited"
    /\ UNCHANGED <<xvars, prog, fvars, consecutive_errors, total_errors, last, nfailed>>

MNext ==
    \/ IaTakeNone \/ IaTakeDownload \/ IaTakeError \/ IaWorkerRaises \/ IaCheck
    \/ IaExit
    \/ CcTakeExists \/ CcTakeDownloaded \/ CcTakeError \/ CcExit

SpecMain == MInit /\ [][MNext]_vars

(***************************************************************************)
(* ia-download.py: the files generator and ia_get_files.                   *)
(***************************************************************************)
Items == {"a", "b"}

\* states in which the other parts of the model rest
FileIdle ==
    /\ srvmode = "any" /\ check_md5 = FALSE
    /\ dest = NoFile /\ temp = [n \in TempNames |-> NoFile]
    /\ pid = 1 /\ pc = "idle"
    /\ wbuf = <<>> /\ pos = 0 /\ digest = Md5Init /\ attempt = 0 /\ size = None
    /\ body = <<>> /\ result = NoResult /\ nreq = 0 /\ reqOff = None
    /\ runs = 1 /\ dest0 = dest /\ temp0 = temp /\ renamed = FALSE

\* 163-179: the identifiers of the command line, the cache open or not
LInit ==
    /\ prog = "ia"
    /\ FileIdle /\ MainIdle /\ PoolIdle /\ RaceIdle
    /\ identifiers \in UNION {[1..n -> Items] : n \in 1..MaxItems}
    /\ cacheOn \in BOOLEAN
    /\ cache = {}
    /\ lpc = "next"
    /\ retry = 0 /\ ntry = 0 /\ slept = <<>> /\ lerr = ""

\* 127-129, 132: the generator asks for the files of the next identifier; a
\* key found in the cache is answered from it
ListCall ==
    /\ lpc = "next" /\ identifiers # <<>>
    /\ IF cacheOn /\ Head(identifiers) \in cache
       THEN /\ identifiers' = Tail(identifiers)
            /\ UNCHANGED <<lpc, retry>>
       ELSE /\ lpc' = "try"
            /\ retry' = 1
            /\ UNCHANGED identifiers
    /\ ntry' = 0 /\ slept' = <<>> /\ lerr' = ""
    /\ UNCHANGED <<rvars, prog, fvars, mvars, pvars, cacheOn, cache>>

\* 145-146
Store(c, key) == IF cacheOn THEN c \cup {key} ELSE c

\* 136
SleepsAfterAll(r) == r <= LastRetry
SleepsAfter(r) == r < 5

\* 132-148: one call of get_files: it returns, raises ConnectionError or
\* raises something else
ListTry ==
    /\ lpc = "try" /\ retry \in 1..LastRetry
    /\ ntry' = ntry + 1
    /\ \E outcome \in {"ok", "ConnectionError", "other"} :
          /\ lerr' = (IF outcome = "ok" THEN "" ELSE outcome)
          /\ IF outcome = "ok"
             THEN /\ cache' = Store(cache, Head(identifiers))
                  /\ identifiers' = Tail(identifiers)
                  /\ lpc' = "next"
             ELSE /\ lpc' = (IF outcome = "ConnectionError" /\ SleepsAfter(retry)
                             THEN "sleep" ELSE "raised")
                  /\ UNCHANGED <<cache, identifiers>>
    /\ UNCHANGED <<rvars, prog, fvars, mvars, pvars, cacheOn, retry, slept>>

\* 138
BackOff(r) == 4 ^ r

\* 137-138, 132: the sleep, then the next round of the for loop
ListSleep ==
    /\ lpc = "sleep"
    /\ slept' = Append(slept, BackOff(retry))
    /\ retry' = retry + 1
    /\ lpc' = "try"
    /\ UNCHANGED <<rvars, prog, fvars, mvars, pvars, identifiers, cacheOn, cache, ntry,
                   lerr>>

LNext == ListCall \/ ListTry \/ ListSleep

SpecList == LInit /\ [][LNext]_vars

(***************************************************************************)
(* The main programs with their workers: multiprocessing.Pool and FakePool. *)
(***************************************************************************)
\* values of --jobs
JobCounts == {1, 2}

\* ia-download.py 163: the session of the main program is the library's own,
\* ia.api.get_session(); its adapter retries a failed GET 3 times
LibraryRetries == 3

\* ia-download.py 187-190: only a Pool runs worker_setup in its workers;
\* FakePool calls worker_download_file in the main program, whose global
\* session is the one of line 163
InThread == prog = "ia" /\ jobs <= 1

\* how often the session (ia) or urlopen (cc) tries a failed GET again
SessionRetries ==
    IF prog = "cc" THEN 0
    ELSE IF InThread THEN LibraryRetries
    ELSE SetupRetries

\* what a task meets: the state of its destination, and how many times in a
\* row the server fails the GET before it answers; fields that cannot matter
\* are held at one value
PoolEnvs ==
    {e \in [exists : BOOLEAN, md5ok : BOOLEAN, ioerror : BOOLEAN, drops : 0..MaxDrops] :
        /\ ~e.exists => e.md5ok /\ ~e.ioerror
        /\ e.ioerror => e.md5ok
        /\ (e.exists /\ e.md5ok) => e.drops = 0}

\* the worker's result with a session that retries r times
WorkerWith(r, e) ==
    Worker([exists |-> e.exists, md5ok |-> e.md5ok, ioerror |-> e.ioerror,
            transfer |-> IF e.drops <= r THEN "ok" ELSE "fail"])

\* the run so far: `before` tasks, each of them Failed and reported, none in
\* the works; then `n` tasks more
PInitAfter(before, n) ==
    /\ ntasks = before + n /\ todo = n
    /\ taken = before /\ rows = before /\ skipped = 0 /\ killed = 0
    /\ consecutive_errors = before /\ total_errors = before /\ nfailed = before
    /\ last = (IF before > 0 THEN "Failed" ELSE "none")

PInit ==
    /\ prog \in {"cc", "ia"}
    /\ srvmode = "any"
    /\ check_md5 \in (IF prog = "ia" THEN BOOLEAN ELSE {FALSE})
    /\ dest = NoFile /\ temp = [n \in TempNames |-> NoFile]
    /\ pid = 1 /\ pc = "idle"
    /\ wbuf = <<>> /\ pos = 0 /\ digest = Md5Init /\ attempt = 0 /\ size = None
    /\ body = <<>> /\ result = NoResult /\ nreq = 0 /\ reqOff = None
    /\ runs = 1 /\ dest0 = dest /\ temp0 = temp /\ renamed = FALSE
    /\ ListIdle /\ RaceIdle
    /\ jobs \in JobCounts
    /\ busy = [w \in 1..jobs |-> <<>>]
    /\ outq = <<>>
    /\ mainpc = "loop" /\ exitcode = None
    /\ \E before \in (IF prog = "ia" THEN {0, Threshold - 1} ELSE {0}),
          n \in 1..NumTasks : PInitAfter(before, n)

\* a worker takes the next task.  FakePool.imap_unordered (43-45) calls
\* fn(item) only when the main program asks for the next result
PoolDispatch(w) ==
    /\ mainpc \in {"loop", "check"}
    /\ todo > 0 /\ busy[w] = <<>>
    /\ InThread => (mainpc = "loop" /\ outq = <<>>)
    /\ \E e \in PoolEnvs : busy' = [busy EXCEPT ![w] = <<e>>]
    /\ todo' = todo - 1
    /\ UNCHANGED <<rvars, prog, fvars, mvars, lvars, jobs, ntasks, outq, taken, rows,
                   skipped, killed>>

\* the worker's function returns or raises; the result goes to the main program
PoolFinish(w) ==
    /\ mainpc \in {"loop", "check"}
    /\ busy[w] # <<>>
    /\ outq' = Append(outq, WorkerWith(SessionRetries, busy[w][1]))
    /\ busy' = [busy EXCEPT ![w] = <<>>]
    /\ UNCHANGED <<rvars, prog, fvars, mvars, lvars, jobs, ntasks, todo, taken, rows,
                   skipped, killed>>

\* the with block is left by an exception: Pool.__exit__ calls terminate(),
\* which stops the worker processes where they are
Terminate ==
    /\ killed' = Cardinality({w \in 1..jobs : busy[w] # <<>>})
    /\ busy' = [w \in 1..jobs |-> <<>>]

\* ia-download.py 197-217, cc-download.py 143-161: out.writerow
RowsForAll(kind, n) == n + 1
Rows(kind, n) == IF kind \in {"Completed", "Failed"} THEN n + 1 ELSE n

\* ia-download.py 194-217, cc-download.py 143-161: the body of the for loop
PoolTake ==
    /\ mainpc = "loop" /\ outq # <<>>
    /\ outq' = Tail(outq)
    /\ taken' = (IF Head(outq) = "raise" THEN taken ELSE taken + 1)
    /\ last' = Head(outq)
    /\ rows' = Rows(Head(outq), rows)
    /\ skipped' = (IF Head(outq) = "AlreadyPresent" THEN skipped + 1 ELSE skipped)
    /\ nfailed' = (IF Head(outq) = "Failed" THEN nfailed + 1 ELSE nfailed)
    /\ IF Head(outq) = "raise"
       THEN /\ mainpc' = "crashed" /\ exitcode' = 1
            /\ Terminate
            /\ UNCHANGED <<consecutive_errors, total_errors>>
       ELSE /\ UNCHANGED <<exitcode, busy, killed>>
            /\ IF prog = "cc" \/ Head(outq) = "AlreadyPresent"
               THEN /\ mainpc' = "loop"
                    /\ UNCHANGED <<consecutive_errors, total_errors>>
               ELSE /\ mainpc' = "check"
                    /\ IF Head(outq) = "Completed"
                       THEN /\ consecutive_errors' = AfterDownload(consecutive_errors)
                            /\ UNCHANGED total_errors
                       ELSE /\ consecutive_errors' = AfterError(consecutive_errors)
                            /\ total_errors' = total_errors + 1
    /\ UNCHANGED <<rvars, prog, fvars, lvars, jobs, ntasks, todo>>

\* ia-download.py 219-220, 172
PoolCheck ==
    /\ prog = "ia" /\ mainpc = "check"
    /\ IF Tripped(consecutive_errors)
       THEN /\ mainpc' = "aborted" /\ exitcode' = 1
            /\ Terminate
       ELSE /\ mainpc' = "loop"
            /\ UNCHANGED <<exitcode, busy, killed>>
    /\ UNCHANGED <<rvars, prog, fvars, lvars, consecutive_errors, total_errors, last, nfailed,
                   jobs, ntasks, todo, outq, taken, rows, skipped>>

\* ia-download.py 222, cc-download.py 161: the results are used up
PoolExit ==
    /\ mainpc = "loop"
    /\ todo = 0 /\ outq = <<>> /\ \A w \in 1..jobs : busy[w] = <<>>
    /\ mainpc' = "exited"
    /\ exitcode' = (IF prog = "ia" THEN ExitStatus(total_errors) ELSE 0)
    /\ UNCHANGED <<rvars, prog, fvars, lvars, pvars, consecutive_errors, total_errors, last,
                   nfailed>>

PNext ==
    \/ \E w \in 1..jobs : PoolDispatch(w)
    \/ \E w \in 1..jobs : PoolFinish(w)
    \/ PoolTake \/ PoolCheck \/ PoolExit

SpecPool == PInit /\ [][PNext]_vars

(***************************************************************************)
(* Two workers of one run, each with a task, and the paths they work on.   *)
(***************************************************************************)
RaceWorkers == {1, 2}
\* cc: the directory of the remote path; ia: the item
Dirs == {"d1", "d2"}
Names == {"x", "y"}
Tasks == [dir : Dirs, name : Names]

\* cc-download.py 66: os.path.basename(path), in the working directory;
\* ia-download.py 104-106: dest_dir/item/file.name
file_path(t) ==
    [kind |-> "dest", dir |-> (IF prog = "cc" THEN "" ELSE t.dir), name |-> t.name,
     pid |-> 0]

\* cc-download.py 67: '.' + file_name; ia-download.py 50-51: in the same
\* directory, '.' + file_name + '~' + os.getpid()
temp_path_shared(t, p) == [kind |-> "temp", dir |-> "", name |-> "", pid |-> 0]
temp_path(t, p) ==
    [kind |-> "temp", dir |-> (IF prog = "cc" THEN "" ELSE t.dir), name |-> t.name,
     pid |-> (IF prog = "cc" THEN 0 ELSE p)]

\* worker w is a process of the pool; its pid is taken to be w
FilePath(w) == file_path(rtask[w])
TempPath(w) == temp_path(rtask[w], w)

RInit ==
    /\ prog \in {"cc", "ia"}
    /\ FileIdle /\ MainIdle /\ ListIdle /\ PoolIdle
    /\ rtask \in [RaceWorkers -> Tasks]
    /\ rpc = [w \in RaceWorkers |-> "start"]
    /\ rfs \in {{}, {file_path(rtask[1])}}
    /\ touched = {}

\* cc-download.py 71-72; ia-download.py 110-116, where a file of the wrong
\* md5 is deleted first
RaceStart(w) ==
    /\ rpc[w] = "start"
    /\ \E unlink \in (IF prog = "ia" /\ FilePath(w) \in rfs THEN BOOLEAN ELSE {FALSE}) :
          IF unlink
          THEN /\ rfs' = rfs \ {FilePath(w)}
               /\ touched' = touched \cup {<<FilePath(w), w>>}
               /\ rpc' = [rpc EXCEPT ![w] = "open"]
          ELSE /\ rpc' = [rpc EXCEPT ![w] =
                             IF FilePath(w) \in rfs THEN "done" ELSE "open"]
               /\ UNCHANGED <<rfs, touched>>
    /\ UNCHANGED <<prog, fvars, mvars, lvars, pvars, rtask>>

\* cc-download.py 76: open(temp_name, 'a+b'); ia-download.py 64:
\* open(temp_path, 'wb')
RaceOpen(w) ==
    /\ rpc[w] = "open"
    /\ rfs' = rfs \cup {TempPath(w)}
    /\ touched' = touched \cup {<<TempPath(w), w>>}
    /\ rpc' = [rpc EXCEPT ![w] = "write"]
    /\ UNCHANGED <<prog, fvars, mvars, lvars, pvars, rtask>>

\* cc-download.py 105; ia-download.py 68: the body is written
RaceWrite(w) ==
    /\ rpc[w] = "write"
    /\ touched' = touched \cup {<<TempPath(w), w>>}
    /\ rpc' = [rpc EXCEPT ![w] = "written"]
    /\ UNCHANGED <<prog, fvars, mvars, lvars, pvars, rtask, rfs>>

\* ia-download.py 76-80: the finally block
RaceCleanup(w) ==
    IF prog = "ia" /\ TempPath(w) \in rfs
    THEN /\ rfs' = rfs \ {TempPath(w)}
         /\ touched' = touched \cup {<<TempPath(w), w>>}
    ELSE UNCHANGED <<rfs, touched>>

\* cc-download.py 117; ia-download.py 75: os.rename, which raises when the
\* temp file is no longer there
RaceRename(w) ==
    /\ rpc[w] = "written"
    /\ IF TempPath(w) \in rfs
       THEN /\ rfs' = (rfs \ {TempPath(w)}) \cup {FilePath(w)}
            /\ touched' = touched \cup {<<TempPath(w), w>>, <<FilePath(w), w>>}
       ELSE RaceCleanup(w)
    /\ rpc' = [rpc EXCEPT ![w] = "done"]
    /\ UNCHANGED <<prog, fvars, mvars, lvars, pvars, rtask>>

\* the transfer fails: cc-download.py 127-132; ia-download.py 70-80, 120-121
RaceError(w) ==
    /\ rpc[w] \in {"write", "written"}
    /\ RaceCleanup(w)
    /\ rpc' = [rpc EXCEPT ![w] = "done"]
    /\ UNCHANGED <<prog, fvars, mvars, lvars, pvars, rtask>>

RNext ==
    \E w \in RaceWorkers :
        RaceStart(w) \/ RaceOpen(w) \/ RaceWrite(w) \/ RaceRename(w) \/ RaceError(w)

SpecRace == RInit /\ [][RNext]_vars

(***************************************************************************)
(* The claims about one transfer (Spec, SpecFair).                         *)
(***************************************************************************)
IsPrefix(a, b) == Len(a) <= Len(b) /\ SubSeq(b, 1, Len(a)) = a

\* C1: whenever a transfer has returned Completed, the file at the destination
\* has as many bytes as the result's size says and, read again from the start,
\* the md5 the result reports; it begins with the bytes the temp file held
\* before the run.
C1_CompletedMatchesFile ==
    (pc = "done" /\ result.kind = "Completed") =>
        /\ dest.exists
        /\ Len(dest.data) = result.size
        /\ compute_md5(dest) = result.md5
        /\ IsPrefix(temp0[temp_name].data, dest.data)

\* the scenario of C1: a temp file of 1 byte is resumed with one Range request
\* from offset 1 and the whole resource ends up at the destination
C1_Witness ==
    /\ prog = "cc" /\ pc = "done" /\ result.kind = "Completed"
    /\ temp0[temp_name].exists /\ Len(temp0[temp_name].data) = 1
    /\ nreq = 1 /\ reqOff = 1
    /\ result.size = Total /\ dest.data = Resource

\* C2: a file that a transfer has put under the destination name holds the
\* whole resource (and in full-body mode has the expected md5) in every state,
\* also between the steps of a transfer and after a kill.
C2_DestinationOnlyWhenComplete ==
    (renamed /\ dest.exists) =>
        /\ Len(dest.data) = Total
        /\ prog = "ia" => compute_md5(dest) = expected_md5

\* the request that a step issues, if it issues one
Requests == prog = "cc" /\ nreq' = nreq + 1

\* C3: every Range request of download_warc, in the first attempt and in the
\* later ones, starts at the length of the temp file as the worker has written
\* it (the bytes on disk and the bytes still in the file object's buffer), and
\* never below the number of bytes the temp file holds on disk.
C3_RangeStartsAtTempLength ==
    [][Requests =>
          /\ reqOff' = Len(temp[temp_name].data) + Len(wbuf)
          /\ reqOff' >= Len(temp[temp_name].data)]_vars

\* a second attempt that resumes from offset 2
C3_Witness ==
    prog = "cc" /\ pc = "recv" /\ nreq = 2 /\ reqOff = 2 /\ attempt = 2

\* the transfer was tried: the destination was absent and the temp file opened
Tried == ~dest0.exists /\ result.error # "open"

\* C4: against a server that cuts every body short, download_warc comes to an
\* end, and when it has, it has issued exactly MAX_ATTEMPTS Range requests and
\* returned Failed for having run out of attempts; it never issues more
\* requests than attempts.
C4_ExactlyMaxAttempts ==
    /\ [](prog = "cc" => nreq <= MAX_ATTEMPTS /\ (Running => nreq = attempt))
    /\ []((prog = "cc" /\ srvmode = "trunc" /\ pc = "done" /\ Tried) =>
             /\ nreq = MAX_ATTEMPTS
             /\ result.kind = "Failed"
             /\ result.error = "Downloaded not enough")
    /\ []((prog = "cc" /\ srvmode = "trunc" /\ pc = "start") => <>(~Running))

C4_Witness ==
    /\ prog = "cc" /\ srvmode = "trunc" /\ pc = "done" /\ Tried
    /\ nreq = MAX_ATTEMPTS /\ result.error = "Downloaded not enough"
    /\ temp[temp_name].exists /\ ~dest.exists

\* C5: when the destination exists at the start and its md5 is not to be
\* checked, the worker issues no request and leaves the destination and the
\* temp files as they were, and what it returns is AlreadyPresent.
C5_ExistingDestinationUntouched ==
    (dest0.exists /\ ~check_md5) =>
        /\ nreq = 0
        /\ dest = dest0
        /\ temp = temp0
        /\ pc \in {"start", "done", "dead"}
        /\ pc = "done" => result = AlreadyPresent

C5_Witness ==
    /\ prog = "cc" /\ pc = "done" /\ result = AlreadyPresent
    /\ dest0.exists /\ dest = dest0 /\ temp = temp0 /\ nreq = 0

\* C8: in full-body mode a task that ends in an error ends as Failed with the
\* worker's temp file gone and no file at the destination; a body whose md5 is
\* not the expected one never ends as Completed.
C8_FullBodyErrorLeavesNothing ==
    (prog = "ia" /\ pc = "done") =>
        /\ result.kind \in {"AlreadyPresent", "Completed", "Failed"}
        /\ result.kind = "Failed" => ~temp[temp_name].exists /\ ~dest.exists
        /\ result.error = "md5 mismatch" => digest # expected_md5
        /\ (nreq = 1 /\ digest # expected_md5) => result.kind = "Failed"

\* the whole body arrived with the wrong content
C8_Witness ==
    /\ prog = "ia" /\ pc = "done" /\ result.kind = "Failed"
    /\ result.error = "md5 mismatch" /\ size = Total
    /\ ~temp[temp_name].exists /\ ~dest.exists

(***************************************************************************)
(* The claims about the main programs (SpecMain).                          *)
(***************************************************************************)
\* the step takes a result of this kind from the result stream
Took(kind) == mainpc = "loop" /\ mainpc' \in {"loop", "check"} /\ last' = kind

\* C6 as stated: the counter starts at 0, every Failed result adds one to it,
\* every Completed and every AlreadyPresent result sets it to 0.
C6_EverySuccessResets ==
    /\ consecutive_errors = 0
    /\ [][prog = "ia" =>
             /\ Took("Failed") => consecutive_errors' = consecutive_errors + 1
             /\ Took("Completed") => consecutive_errors' = 0
             /\ Took("AlreadyPresent") => consecutive_errors' = 0]_vars

\* C6 as amended: the counter starts at 0, every Failed result adds one to it,
\* every Completed result sets it to 0 and an AlreadyPresent result leaves
\* it as it is.
C6_OnlyCompletedResets ==
    /\ consecutive_errors = 0
    /\ [][prog = "ia" =>
             /\ Took("Failed") => consecutive_errors' = consecutive_errors + 1
             /\ Took("Completed") => consecutive_errors' = 0
             /\ Took("AlreadyPresent") => consecutive_errors' = consecutive_errors]_vars

\* an AlreadyPresent result has been taken after a failure
C6_Witness ==
    prog = "ia" /\ mainpc = "loop" /\ last = "AlreadyPresent" /\ consecutive_errors = 2

C9_NoErrorLeavesWorker == mainpc # "crashed"

\* C10: a run that ends without the abort exits with status 0 exactly when no
\* task has failed.
C10_ExitStatusReflectsFailures ==
    mainpc = "exited" => (exitcode = 0 <=> nfailed = 0)

(***************************************************************************)
(* The claims about errors inside an attempt of download_warc (Spec).      *)
(***************************************************************************)
\* the errors that an attempt can raise: the request fails, the response has
\* no usable size, the read of the body fails
AttemptErrors == {"urlopen", "No content size", "read"}

\* C14 as stated: an attempt that fails for a missing size or for a connection
\* error does not end the task: the task ends with such an error only when
\* the attempts are used up.
C14_AttemptErrorRetried ==
    (prog = "cc" /\ pc = "done" /\ result.error \in AttemptErrors) =>
        attempt = MAX_ATTEMPTS

\* C14 as amended: an attempt that fails for a missing size or for a
\* connection error ends the task at once as Failed, whatever the number of
\* attempts made: no request follows, the temp file keeps every byte received
\* and the destination stays as it was; a fresh attempt is made only after a
\* body that ended short of the size the response gave.
C14_AttemptErrorEndsTask ==
    /\ (prog = "cc" /\ pc = "loop" /\ attempt > 0) =>
           size # None /\ pos < size /\ result = NoResult
    /\ (prog = "cc" /\ pc = "done" /\ result.error \in AttemptErrors) =>
           /\ result.kind = "Failed"
           /\ nreq = attempt
           /\ temp[temp_name].exists /\ Len(temp[temp_name].data) = pos
           /\ dest = dest0

\* the second attempt, from offset 1, gets an error for an answer
C14_Witness ==
    /\ prog = "cc" /\ pc = "done" /\ result.error = "urlopen"
    /\ attempt = 2 /\ reqOff = 1 /\ pos = 1 /\ Len(temp[temp_name].data) = 1

\* the body of an attempt has ended with more in the temp file than the total
Overrun == prog = "cc" /\ pc = "recv" /\ Chunk(body) = <<>> /\ pos > size

\* C16: when an attempt has ended with the temp file longer than the size the
\* response gave, the next step ends the task (or the process is killed): no
\* request is issued, nothing is renamed to the destination and the temp file
\* loses no byte; the result is Failed for having downloaded too much, with
\* every received byte in the temp file.  No attempt starts from an offset
\* above the size.
C16_OverrunEndsTask ==
    /\ []((prog = "cc" /\ pc = "loop" /\ size # None) =>
             Len(temp[temp_name].data) + Len(wbuf) <= size)
    /\ []((prog = "cc" /\ pc = "done" /\ result.error = "Downloaded too much") =>
             /\ result.kind = "Failed"
             /\ pos > size
             /\ temp[temp_name].exists /\ Len(temp[temp_name].data) = pos
             /\ dest = dest0 /\ ~dest.exists)
    /\ [][Overrun =>
             /\ pc' \in {"done", "dead"}
             /\ nreq' = nreq /\ dest' = dest
             /\ temp'[temp_name].exists
             /\ IsPrefix(temp[temp_name].data, temp'[temp_name].data)
             /\ pc' = "done" => result'.kind = "Failed"]_vars

\* a temp file of 4 bytes for a resource of Total bytes
C16_Witness ==
    /\ prog = "cc" /\ pc = "done" /\ result.error = "Downloaded too much"
    /\ Len(temp[temp_name].data) = Total + 1 /\ size = Total /\ ~dest.exists

(***************************************************************************)
(* The claims about the pre-flight check of worker_download_file (Spec).   *)
(***************************************************************************)
\* the worker's first step with --check-md5 and a file at the destination,
\* the check itself not failing and the process not being killed
Verifies ==
    /\ prog = "ia" /\ pc = "start" /\ check_md5 /\ dest.exists
    /\ pc' \notin {"start", "dead", "raised"}

\* C18: with --check-md5 and a file at the destination, the worker's first
\* step compares the file's md5 with the expected one.  When they differ the
\* file is deleted and the worker stands where it stands when the destination
\* is absent: before the GET, with no result, no request issued and the temp
\* files untouched.  When they agree the result is AlreadyPresent, the
\* destination is unchanged, and no request is ever issued.
C18_PreflightDecides ==
    /\ [][Verifies =>
             IF compute_md5(dest) = expected_md5
             THEN /\ pc' = "done" /\ result' = AlreadyPresent
                  /\ dest' = dest /\ nreq' = nreq /\ temp' = temp
             ELSE /\ pc' = "get" /\ result' = NoResult
                  /\ dest' = NoFile /\ nreq' = nreq /\ temp' = temp]_vars
    /\ []((prog = "ia" /\ check_md5 /\ dest0.exists
               /\ compute_md5(dest0) = expected_md5) =>
             nreq = 0 /\ dest = dest0)
    /\ []((prog = "ia" /\ nreq > 0 /\ dest0.exists) =>
             check_md5 /\ compute_md5(dest0) # expected_md5)

\* a destination of the wrong content has been replaced by the resource
C18_Witness ==
    /\ prog = "ia" /\ check_md5 /\ dest0 = File(Corrupt)
    /\ pc = "done" /\ result.kind = "Completed"
    /\ nreq = 1 /\ dest = File(Resource)

(***************************************************************************)
(* The claims about the temp file of download_warc (Spec).                 *)
(***************************************************************************)
\* C20: in resumable mode a step leaves an existing temp file in place with
\* its bytes as the beginning of what it holds afterwards, or renames it to
\* the destination; and whenever the task has ended as Failed after the temp
\* file was opened, the temp file is on disk and holds every byte received.
C20_TempOnlyAppended ==
    /\ [][(prog = "cc" /\ temp[temp_name].exists) =>
             \/ /\ temp'[temp_name].exists
                /\ IsPrefix(temp[temp_name].data, temp'[temp_name].data)
             \/ /\ ~temp'[temp_name].exists
                /\ dest' = temp[temp_name]]_vars
    /\ []((prog = "cc" /\ pc = "done" /\ result.kind = "Failed"
               /\ result.error # "open") =>
             /\ temp[temp_name].exists
             /\ Len(temp[temp_name].data) = pos)

(***************************************************************************)
(* The claims about resuming from a temp file of an earlier run (Spec).    *)
(***************************************************************************)
\* C15: an invocation of download_warc that finds a temp file holding the
\* first bytes of the resource, or all of them, and a server that answers as
\* HTTP asks it to, issues its one request from the length of that temp file
\* and ends as Completed (unless the temp file cannot be opened or closed).
C15_ResumeAlwaysCompletes ==
    (/\ prog = "cc" /\ srvmode = "good" /\ pc = "done"
     /\ ~dest0.exists /\ temp0[temp_name].exists
     /\ IsPrefix(temp0[temp_name].data, Resource)
     /\ result.error \notin {"open", "close"}) =>
        /\ result.kind = "Completed"
        /\ nreq = 1 /\ reqOff = Len(temp0[temp_name].data)

(***************************************************************************)
(* The claims about the listing of an item's files (SpecList).             *)
(***************************************************************************)
\* C17: one call of ia_get_files calls get_files at most 5 times.  After the
\* k-th call has raised ConnectionError, k < 5, it sleeps 4^k seconds and
\* calls again; after the 5th the error leaves ia_get_files with no sleep;
\* any other error leaves it at once.  The first call that returns ends the
\* loop, and the cache is written only then, under the key of the item.
C17_ListingRetries ==
    /\ [](ntry <= 5 /\ slept = [k \in 1..Len(slept) |-> 4 ^ k])
    /\ [](lpc = "try" => retry = ntry + 1 /\ Len(slept) = ntry)
    /\ [](lpc = "sleep" =>
             /\ lerr = "ConnectionError"
             /\ retry = ntry /\ ntry < 5 /\ Len(slept) = ntry - 1)
    /\ [](lpc = "raised" =>
             /\ retry = ntry /\ Len(slept) = ntry - 1
             /\ lerr = "other" \/ (lerr = "ConnectionError" /\ ntry = 5))
    /\ [][ntry' = ntry + 1 =>
             /\ lerr' = "" => lpc' = "next" /\ identifiers' = Tail(identifiers)
             /\ lerr' = "other" => lpc' = "raised"
             /\ lerr' = "ConnectionError" =>
                   lpc' = (IF ntry' < 5 THEN "sleep" ELSE "raised")]_vars
    /\ [][cache' # cache =>
             /\ ntry' = ntry + 1 /\ lerr' = "" /\ lpc' = "next"
             /\ cache' = cache \cup {Head(identifiers)}]_vars

\* the fifth call has failed after sleeps of 4, 16, 64 and 256 seconds
C17_Witness ==
    /\ lpc = "raised" /\ lerr = "ConnectionError" /\ ntry = 5
    /\ slept = <<4, 16, 64, 256>>

(***************************************************************************)
(* The claims about the workers and the result stream (SpecPool).          *)
(***************************************************************************)
InFlight == Cardinality({w \in 1..jobs : busy[w] # <<>>})

\* C11 as stated: when a run has ended and was not aborted, as many rows have
\* been written as the run had tasks.
C11_RecordPerTask == mainpc = "exited" => rows = ntasks

\* C11 as amended: while the run goes on every task is in exactly one place:
\* not yet handed out, with one worker, in the result stream or taken by the
\* main program; every result taken adds one row when it is Completed or
\* Failed and none when it is AlreadyPresent; when a run has ended and was not
\* aborted, every task's result has been taken and the rows are as many as
\* the tasks whose result was not AlreadyPresent.
C11_RecordPerTransfer ==
    /\ [](mainpc \in {"loop", "check"} =>
             todo + InFlight + Len(outq) + taken = ntasks)
    /\ [](rows = taken - skipped)
    /\ [](mainpc = "exited" => taken = ntasks /\ rows = ntasks - skipped)
    /\ [][taken' = taken + 1 =>
             /\ skipped' = skipped + (IF last' = "AlreadyPresent" THEN 1 ELSE 0)
             /\ rows' = rows + (IF last' = "AlreadyPresent" THEN 0 ELSE 1)]_vars

\* a run of three tasks, one of them present already, has written two rows
C11_Witness ==
    /\ mainpc = "exited" /\ ntasks = 3 /\ taken = 3 /\ skipped = 1 /\ rows = 2

\* C12: a task that meets the same destination and the same server gets the
\* same result from a worker whether the worker runs in the main program
\* (FakePool, --jobs 1) or in a process of the Pool: every result that a
\* worker of ia-download.py hands over is the result of a Pool worker, whose
\* session worker_setup has made.
C12_SameResultInBothModes ==
    [][\A w \in 1..jobs :
          (prog = "ia" /\ busy[w] # <<>> /\ Len(outq') = Len(outq) + 1) =>
              outq'[Len(outq')] = WorkerWith(SetupRetries, busy[w][1])]_vars

\* C13: when the run is aborted for too many consecutive errors, no worker is
\* stopped in the middle of a task.
C13_InFlightRunToEnd == mainpc = "aborted" => killed = 0

(***************************************************************************)
(* The claims about workers running at the same time (SpecRace).           *)
(***************************************************************************)
\* no path has been written, renamed or deleted by two workers
NoSharedPath == \A a, b \in touched : a[1] = b[1] => a[2] = b[2]

\* C19 as stated: whatever the tasks of two workers that run at the same
\* time, no path is written, renamed or deleted by both.
C19_NoFileSharedByWorkers == NoSharedPath

\* C19 as amended: a worker writes, renames and deletes only the destination
\* path and the temp path of its own task; when the tasks of two workers that
\* run at the same time have different destination paths, no path is written,
\* renamed or deleted by both; in full-body mode the temp paths of the two
\* workers differ even when the destination paths are the same.
C19_OwnPathsOnly ==
    /\ \A a \in touched : a[1] \in {FilePath(a[2]), TempPath(a[2])}
    /\ FilePath(1) # FilePath(2) => NoSharedPath
    /\ prog = "ia" => \A a, b \in touched :
                          (a[1] = b[1] /\ a[1].kind = "temp") => a[2] = b[2]

\* both workers have put their file in place, under different names
C19_Witness ==
    /\ prog = "cc" /\ FilePath(1) # FilePath(2)
    /\ rpc[1] = "done" /\ rpc[2] = "done"
    /\ {FilePath(1), FilePath(2)} \subseteq rfs
    /\ <<TempPath(1), 1>> \in touched /\ <<TempPath(2), 2>> \in touched

====
